---- MODULE Spec2Model ----
(***************************************************************************)
(* Model of the particle filter of src/src/particle_filter.cpp:            *)
(* ParticleFilter::init, prediction, updateWeights (with its helpers       *)
(* GetLandmarksWithinSensorRange, ConvertToParticleCoordinates,            *)
(* dataAssociation, UpdateParticleWeight) and resample.                    *)
(*                                                                         *)
(* Number representation.  TLA+ has no floating point, so                  *)
(*  - positions are integers in kilometres (every input of the model is a  *)
(*    whole number of km); distances are compared through their squares,   *)
(*    which preserves every <, <= of the code because sqrt is monotone;    *)
(*  - headings are integers in quarter turns (pi/2 rad), for which sin and *)
(*    cos are exactly -1, 0 or 1;                                          *)
(*  - weights are fixed-point numbers with One units per 1.0, every        *)
(*    product and quotient rounded towards zero.  A density too small for  *)
(*    the format becomes exactly 0, as a too small double does.            *)
(* std::vector<T> is a function on 0..size-1, so indices are the code's.   *)
(***************************************************************************)
EXTENDS Integers, Sequences, FiniteSets, TLC

VARIABLES
    num_particles,    \* ParticleFilter::num_particles
    is_initialized,   \* ParticleFilter::is_initialized
    particles,        \* ParticleFilter::particles, 0-based vector of Particle
    weights,          \* ParticleFilter::weights, 0-based vector of double
    call,             \* the last member function called and its arguments
    outcome,          \* how that call ended: "returned" or "crashed"
    assoc,            \* per particle, the arguments and result of the
                      \* dataAssociation call of the last updateWeights
    entry             \* what the last call found in weights, for the two
                      \* calls that reset or read them (prediction, resample)

vars == <<num_particles, is_initialized, particles, weights, call, outcome,
          assoc, entry>>

-----------------------------------------------------------------------------
(* Bounds of the model.                                                    *)

\* Number of particles the model gives init (the code's 75, see init).
NumParticles == 2

\* prediction is taken only while every pose stays in the window
\* |x|, |y|, |theta| <= MaxCoord: the code lets the poses grow without bound.
MaxCoord == 2

-----------------------------------------------------------------------------
(* Vectors and numbers.                                                    *)

Size(v) == Cardinality(DOMAIN v)

Vec(s) == [i \in 0..(Len(s) - 1) |-> s[i + 1]]

EmptyVec == [i \in {} |-> 0]

PushBack(v, e) == [i \in 0..Size(v) |-> IF i < Size(v) THEN v[i] ELSE e]

\* The double 1.0 in the fixed-point format of the weights.
One == 1000

\* pi (line 17) in the same format.
PiFixed == 3142

\* cos and sin of an angle given in quarter turns.
Cos(q) == CASE q % 4 = 0 -> 1 [] q % 4 = 1 -> 0 [] q % 4 = 2 -> -1 [] OTHER -> 0

Sin(q) == CASE q % 4 = 0 -> 0 [] q % 4 = 1 -> 1 [] q % 4 = 2 -> 0 [] OTHER -> -1

\* b^k for a fixed-point b < 1, by k multiplications; past 8 factors the
\* powers used here are below the resolution of the format (underflow).
RECURSIVE PowFixed(_, _)
PowFixed(b, k) ==
    IF k = 0 THEN One
    ELSE IF k > 8 THEN 0
    ELSE (PowFixed(b, k - 1) * b) \div One

\* exp(-t) for a fixed-point t >= 0: exp(-1) = 0.368 to the whole part of
\* t, times exp(-1/8) = 0.882 to the eighths of its fraction.
ExpNeg(t) ==
    (PowFixed(368, t \div One) * PowFixed(882, ((t % One) * 8) \div One))
    \div One

\* Square of dist(x1, y1, x2, y2), the Euclidean distance of
\* helper_functions.h.
dist2(x1, y1, x2, y2) == (x2 - x1) * (x2 - x1) + (y2 - y1) * (y2 - y1)

\* The values a draw from normal_distribution(mean, std) takes in the model:
\* the two points mean -/+ std, a distribution of mean `mean' and standard
\* deviation `std' (one point when std is below the grid resolution, 0).
NormalDraws(mean, std) == {mean - std, mean + std}

\* The weight vector w as a call finds it: every weight 1.0 ("unit"), every
\* weight 0 ("zero"), some but not all 0 ("mixed"), or none 0 ("positive").
WeightClass(w) ==
    IF \A i \in DOMAIN w : w[i] = One THEN "unit"
    ELSE IF \A i \in DOMAIN w : w[i] = 0 THEN "zero"
    ELSE IF \E i \in DOMAIN w : w[i] = 0 THEN "mixed"
    ELSE "positive"

-----------------------------------------------------------------------------
(* ParticleFilter::init, lines 29-60.                                      *)

\* The three draws of one loop iteration (lines 53-55), for every particle.
InitDraws(n, x, y, theta, std) ==
    [0..(n - 1) -> [x : NormalDraws(x, std[1]),
                    y : NormalDraws(y, std[2]),
                    theta : NormalDraws(theta, std[3])]]

\* Lines 52-55 without line 56: the weight is never set.
InitParticleUnweighted(i, d) ==
    [id |-> i, x |-> d.x, y |-> d.y, theta |-> d.theta, weight |-> 0]

\* Lines 52-56.
InitParticle(i, d) ==
    [id |-> i, x |-> d.x, y |-> d.y, theta |-> d.theta, weight |-> One]

\* Line 57.
InitWeight(i) == One

InitInputs ==
    [x : {0}, y : {0}, theta : {0}, std : {<<2, 0, 0>>}]

NoArgs == [sensor_range |-> 0, std_landmark |-> <<0, 0>>,
           observations |-> EmptyVec, map_landmarks |-> EmptyVec]

init(a, d) ==
    /\ outcome # "crashed"
    /\ num_particles' = NumParticles
    /\ particles' = [i \in 0..(NumParticles - 1) |-> InitParticle(i, d[i])]
    /\ weights' = [i \in 0..(NumParticles - 1) |-> InitWeight(i)]
    /\ is_initialized' = TRUE
    /\ call' = [op |-> "init", args |-> NoArgs]
    /\ outcome' = "returned"
    /\ assoc' = EmptyVec
    /\ entry' = "n/a"

-----------------------------------------------------------------------------
(* ParticleFilter::prediction, lines 71-114.                               *)
(* With yaw_rate # 0 the velocity is given in units of pi/2 km/s, so that  *)
(* velocity/yaw_rate (yaw_rate in quarter turns per second) is a whole     *)
(* number of km; with yaw_rate = 0 it is given in km/s.                    *)

PredictionDraws(n, std_pos) ==
    [0..(n - 1) -> [x : NormalDraws(0, std_pos[1]),
                    y : NormalDraws(0, std_pos[2]),
                    theta : NormalDraws(0, std_pos[3])]]

\* Lines 93-111: one loop iteration, noise being the draws of lines 104-106.
PredictedParticle(p, delta_t, velocity, yaw_rate, noise) ==
    LET theta_0 == p.theta
        particle_x ==
            IF yaw_rate # 0
            THEN p.x + (velocity \div yaw_rate)
                       * (Sin(theta_0 + yaw_rate * delta_t) - Sin(theta_0))
            ELSE p.x + velocity * delta_t * Cos(theta_0)
        particle_y ==
            IF yaw_rate # 0
            THEN p.y + (velocity \div yaw_rate)
                       * (Cos(theta_0) - Cos(theta_0 + yaw_rate * delta_t))
            ELSE p.y + velocity * delta_t * Sin(theta_0)
        particle_theta ==
            IF yaw_rate # 0 THEN p.theta + yaw_rate * delta_t ELSE p.theta
    IN  [id |-> p.id,
         x |-> particle_x + noise.x,
         y |-> particle_y + noise.y,
         theta |-> particle_theta + noise.theta,
         weight |-> One]

\* Line 112 left out: the entry of weights stays as it was.
PredictedWeightKept(w) == w

\* Line 112.
PredictedWeight(w) == One

PredictionInputs ==
    [delta_t : {1}, velocity : {2}, yaw_rate : {0, 1}, std_pos : {<<2, 0, 0>>}]

Abs(n) == IF n < 0 THEN -n ELSE n

InWindow(p) ==
    Abs(p.x) <= MaxCoord /\ Abs(p.y) <= MaxCoord /\ Abs(p.theta) <= MaxCoord

prediction(a, d) ==
    /\ outcome # "crashed"
    /\ \A i \in 0..(num_particles - 1) :
          InWindow(PredictedParticle(particles[i], a.delta_t, a.velocity,
                                     a.yaw_rate, d[i]))
    /\ particles' = [i \in 0..(num_particles - 1) |->
                       PredictedParticle(particles[i], a.delta_t, a.velocity,
                                         a.yaw_rate, d[i])]
    /\ weights' = [i \in 0..(num_particles - 1) |-> PredictedWeight(weights[i])]
    /\ call' = [op |-> "prediction", args |-> NoArgs]
    /\ outcome' = "returned"
    /\ assoc' = EmptyVec
    /\ entry' = WeightClass(weights)
    /\ UNCHANGED <<num_particles, is_initialized>>

-----------------------------------------------------------------------------
(* GetLandmarksWithinSensorRange, lines 125-143.                           *)

\* The loop of lines 130-142 from index i on; remaining_landmarks is the
\* vector built so far.  curr_dist <= sensor_range is compared on squares.
RECURSIVE LandmarksFrom(_, _, _, _, _)
LandmarksFrom(curr_p, map_landmarks, sensor_range, i, remaining_landmarks) ==
    IF i >= Size(map_landmarks) THEN remaining_landmarks
    ELSE LET curr_dist2 == dist2(curr_p.x, curr_p.y,
                                 map_landmarks[i].x_f, map_landmarks[i].y_f)
             lmk == [id |-> map_landmarks[i].id_i,
                     x |-> map_landmarks[i].x_f,
                     y |-> map_landmarks[i].y_f]
         IN  LandmarksFrom(curr_p, map_landmarks, sensor_range, i + 1,
                           IF curr_dist2 <= sensor_range * sensor_range
                           THEN PushBack(remaining_landmarks, lmk)
                           ELSE remaining_landmarks)

GetLandmarksWithinSensorRange(curr_p, map_landmarks, sensor_range) ==
    LandmarksFrom(curr_p, map_landmarks, sensor_range, 0, EmptyVec)

-----------------------------------------------------------------------------
(* ConvertToParticleCoordinates, lines 153-171.                            *)

ConvertToParticleCoordinates(current_particle, observations) ==
    LET xt == current_particle.x
        yt == current_particle.y
        theta == current_particle.theta
    IN  [i \in DOMAIN observations |->
           LET x == observations[i].x
               y == observations[i].y
           IN  [id |-> observations[i].id,
                x |-> xt + x * Cos(theta) - y * Sin(theta),
                y |-> yt + x * Sin(theta) + y * Cos(theta)]]

-----------------------------------------------------------------------------
(* ParticleFilter::dataAssociation, lines 220-239.                         *)

\* The initial value of distance_so_far, 100000.0 m, in km.
distance_so_far_init == 100

\* The loop of lines 227-234 from index j on, for one observation; the
\* distances are compared on their squares.
RECURSIVE ClosestFrom(_, _, _, _, _)
ClosestFrom(predicted, o, j, distance_so_far2, closest) ==
    IF j >= Size(predicted) THEN closest
    ELSE LET curr_dist2 == dist2(o.x, o.y, predicted[j].x, predicted[j].y)
         IN  IF curr_dist2 < distance_so_far2
             THEN ClosestFrom(predicted, o, j + 1, curr_dist2, j)
             ELSE ClosestFrom(predicted, o, j + 1, distance_so_far2, closest)

\* Line 226 and the loop after it.
Closest(predicted, o) ==
    ClosestFrom(predicted, o, 0,
                distance_so_far_init * distance_so_far_init, 0)

\* predicted[k] as lines 236-237 read it.  Past the end of the vector the
\* read is undefined behaviour; `garbage' is the value it yields when the
\* program survives it.
ReadPredicted(predicted, k, garbage) ==
    IF k \in DOMAIN predicted THEN predicted[k] ELSE garbage

\* Lines 224-238: the observations as the call leaves them.
dataAssociation(predicted, observations, garbage) ==
    [i \in DOMAIN observations |->
       LET closest == Closest(predicted, observations[i])
           lm == ReadPredicted(predicted, closest, garbage)
       IN  [id |-> closest, x |-> lm.x, y |-> lm.y]]

\* Whether the call reads past the end of predicted.
ReadsPastEnd(predicted, observations) ==
    \E i \in DOMAIN observations :
       Closest(predicted, observations[i]) \notin DOMAIN predicted

-----------------------------------------------------------------------------
(* UpdateParticleWeight, lines 185-212.                                    *)

\* The loop of lines 197-210 from index i on.
RECURSIVE WeightFrom(_, _, _, _, _)
WeightFrom(std_landmark, observations, transformed_observations, i, updated_weight) ==
    IF i >= Size(observations) THEN updated_weight
    ELSE LET sigmax == std_landmark[1]
             sigmay == std_landmark[2]
             l1 == (One * One) \div (2 * PiFixed * sigmax * sigmay)
             x == observations[i].x
             y == observations[i].y
             mux == transformed_observations[i].x
             muy == transformed_observations[i].y
             l2 == ((x - mux) * (x - mux) * One) \div (2 * sigmax * sigmax)
             l3 == ((y - muy) * (y - muy) * One) \div (2 * sigmay * sigmay)
             l4 == ExpNeg(l2 + l3)
             temp_weight == (l1 * l4) \div One
         IN  WeightFrom(std_landmark, observations, transformed_observations,
                        i + 1, (updated_weight * temp_weight) \div One)

\* The weight line 211 stores in the particle.
UpdateParticleWeight(std_landmark, observations, transformed_observations) ==
    WeightFrom(std_landmark, observations, transformed_observations, 0, One)

-----------------------------------------------------------------------------
(* ParticleFilter::updateWeights, lines 250-278.                           *)

\* One iteration of the loop of lines 253-277 for particle p: the locals
\* remaining_landmarks (line 262), converted_observations (line 265),
\* chosen_matched_observations (lines 267-270), and the weight line 275
\* leaves in the particle.
UpdateIteration(p, a, garbage) ==
    LET remaining_landmarks ==
            GetLandmarksWithinSensorRange(p, a.map_landmarks, a.sensor_range)
        converted_observations ==
            ConvertToParticleCoordinates(p, a.observations)
        chosen_matched_observations ==
            dataAssociation(remaining_landmarks, converted_observations,
                            garbage)
    IN  [predicted |-> remaining_landmarks,
         observations |-> converted_observations,
         matched |-> chosen_matched_observations,
         weight |-> UpdateParticleWeight(a.std_landmark,
                                         converted_observations,
                                         chosen_matched_observations)]

\* Line 275 (through line 211): the particle after its iteration.
UpdatedParticle(p, weight) == [p EXCEPT !.weight = weight]

\* Line 276 left out: weights[i] stays as it was.
UpdatedWeightStale(w, curr_p) == w

\* Line 276: weights[i] = curr_p->weight.
UpdatedWeight(w, curr_p) == curr_p.weight

\* Whether some iteration of the loop reads past the end of its candidates.
Faults(ps, a) ==
    \E i \in DOMAIN ps :
       ReadsPastEnd(GetLandmarksWithinSensorRange(ps[i], a.map_landmarks,
                                                  a.sensor_range),
                    ConvertToParticleCoordinates(ps[i], a.observations))

MapNear ==
    Vec(<<[id_i |-> 1, x_f |-> -1, y_f |-> 0],
          [id_i |-> 2, x_f |-> -2, y_f |-> 2],
          [id_i |-> 3, x_f |-> -2, y_f |-> 0]>>)

MapFar ==
    Vec(<<[id_i |-> 1, x_f |-> 150, y_f |-> 0],
          [id_i |-> 2, x_f |-> 120, y_f |-> 0]>>)

ObsAhead == [id |-> 0, x |-> 1, y |-> 0]

ObsLeft == [id |-> 0, x |-> 0, y |-> 1]

UpdateInputs ==
    [sensor_range : {3, 200},
     std_landmark : {<<1, 1>>},
     observations : {EmptyVec, Vec(<<ObsAhead>>), Vec(<<ObsAhead, ObsLeft>>)},
     map_landmarks : {MapNear, MapFar}]
    \cup
    [sensor_range : {200},
     std_landmark : {<<2, 2>>},
     observations : {Vec(<<ObsAhead>>)},
     map_landmarks : {MapNear}]

\* What a read past the end may yield.
Garbage == {[x |-> 0, y |-> 0], [x |-> 5, y |-> 5]}

GarbageFor(ps, a) ==
    IF Faults(ps, a) THEN Garbage ELSE {[x |-> 0, y |-> 0]}

\* The call runs to its end.
updateWeights(a, garbage) ==
    LET it == [i \in 0..(num_particles - 1) |->
                 UpdateIteration(particles[i], a, garbage)]
        updated == [i \in 0..(num_particles - 1) |->
                      UpdatedParticle(particles[i], it[i].weight)]
    IN  /\ outcome # "crashed"
        /\ particles' = updated
        /\ weights' = [i \in 0..(num_particles - 1) |->
                         UpdatedWeight(weights[i], updated[i])]
        /\ assoc' = [i \in 0..(num_particles - 1) |->
                       [predicted |-> it[i].predicted,
                        observations |-> it[i].observations,
                        matched |-> it[i].matched]]
        /\ call' = [op |-> "updateWeights", args |-> a]
        /\ outcome' = "returned"
        /\ entry' = "n/a"
        /\ UNCHANGED <<num_particles, is_initialized>>

\* The read past the end of predicted ends the process, and with it the
\* filter's vectors.
updateWeightsFault(a) ==
    /\ outcome # "crashed"
    /\ Faults(particles, a)
    /\ call' = [op |-> "updateWeights", args |-> a]
    /\ outcome' = "crashed"
    /\ particles' = EmptyVec
    /\ weights' = EmptyVec
    /\ assoc' = EmptyVec
    /\ entry' = "n/a"
    /\ UNCHANGED <<num_particles, is_initialized>>

-----------------------------------------------------------------------------
(* ParticleFilter::resample, lines 284-305.                                *)

\* A uniform draw in place of line 290's weighted one: any index.
DrawSupportAny(w) == DOMAIN w

\* The values dist_N(gen) can return (lines 290, 299).  A
\* discrete_distribution returns i with probability w[i] / sum(w), so never
\* an index of weight 0; when no weight is positive its behaviour is
\* undefined and the draw may be any index.
DrawSupport(w) ==
    IF \E i \in DOMAIN w : w[i] > 0
    THEN {i \in DOMAIN w : w[i] > 0}
    ELSE DOMAIN w

\* Line 301 copying the pose and weight but not the identifier.
ResampledParticleNoId(ps, index) == [ps[index] EXCEPT !.id = 0]

\* Line 301.
ResampledParticle(ps, index) == ps[index]

\* Line 300.
ResampledWeight(ps, index) == ps[index].weight

resample(draw) ==
    /\ outcome # "crashed"
    /\ particles' = [i \in 0..(num_particles - 1) |->
                       ResampledParticle(particles, draw[i])]
    /\ weights' = [i \in 0..(num_particles - 1) |->
                     ResampledWeight(particles, draw[i])]
    /\ call' = [op |-> "resample", args |-> NoArgs]
    /\ outcome' = "returned"
    /\ assoc' = EmptyVec
    /\ entry' = WeightClass(weights)
    /\ UNCHANGED <<num_particles, is_initialized>>

-----------------------------------------------------------------------------

\* The filter as constructed: no particles, not initialized.
Init ==
    /\ num_particles = 0
    /\ is_initialized = FALSE
    /\ particles = EmptyVec
    /\ weights = EmptyVec
    /\ call = [op |-> "none", args |-> NoArgs]
    /\ outcome = "returned"
    /\ assoc = EmptyVec
    /\ entry = "n/a"

Next ==
    \/ \E a \in InitInputs :
         \E d \in InitDraws(NumParticles, a.x, a.y, a.theta, a.std) : init(a, d)
    \/ \E a \in PredictionInputs :
         \E d \in PredictionDraws(num_particles, a.std_pos) : prediction(a, d)
    \/ \E a \in UpdateInputs :
         \E garbage \in GarbageFor(particles, a) : updateWeights(a, garbage)
    \/ \E a \in UpdateInputs : updateWeightsFault(a)
    \/ \E draw \in [0..(num_particles - 1) -> DrawSupport(weights)] :
         resample(draw)

Spec == Init /\ [][Next]_vars

-----------------------------------------------------------------------------
(* Properties.                                                             *)

Indices == 0..(num_particles - 1)

Returned(op) == call.op = op /\ outcome = "returned"

\* C1: after init and after any sequence of completed prediction,
\* updateWeights and resample calls, weights[i] equals particles[i].weight
\* for every index i in 0..N-1.
C1_WeightsMirrorParticles ==
    (is_initialized /\ outcome = "returned") =>
        /\ DOMAIN particles = Indices
        /\ DOMAIN weights = Indices
        /\ \A i \in Indices : weights[i] = particles[i].weight

\* A resample that followed an updateWeights has left two different
\* weights, neither of them 1.0.
C1_Witness ==
    /\ is_initialized
    /\ Returned("resample")
    /\ \E i, j \in Indices :
          /\ weights[i] # weights[j]
          /\ weights[i] # One
          /\ weights[j] # One

\* C2: prediction, updateWeights or resample called before init fails with
\* NotInitializedError.
C2_FailsBeforeInit ==
    (~is_initialized /\ call.op \in {"prediction", "updateWeights", "resample"})
        => outcome = "NotInitializedError"

\* C3 as stated: after resample the particle at position i has identifier i.
C3_IdentifierIsPosition ==
    (is_initialized /\ Returned("resample")) =>
        \A i \in Indices : particles[i].id = i

\* C3 as the code has it: resample makes the particle at every position a
\* copy of one particle of the previous generation, identifier included; the
\* identifiers are those of the drawn sources, not the positions.
C3_IdentifierIsSource ==
    [][call'.op = "resample" =>
          \A i \in DOMAIN particles' :
             \E j \in DOMAIN particles : particles'[i] = particles[j]]_vars

\* After a resample some position holds a particle with another identifier,
\* and two positions hold the same identifier.
C3_Witness ==
    /\ is_initialized
    /\ Returned("resample")
    /\ \E i \in Indices : particles[i].id # i
    /\ \E i, j \in Indices : i # j /\ particles[i].id = particles[j].id

\* C4: when every weight is exactly zero, resample fails with
\* DegenerateWeightsError and leaves the particles and weights as they were.
\* Stated for the zero weights an updateWeights leaves that read every
\* candidate inside its vector (the densities underflowed).
C4_FailsOnAllZeroWeights ==
    [][(/\ is_initialized
        /\ Returned("updateWeights")
        /\ \A i \in DOMAIN assoc : Size(assoc[i].predicted) > 0
        /\ \A i \in DOMAIN weights : weights[i] = 0
        /\ call'.op = "resample")
       => (/\ outcome' = "DegenerateWeightsError"
           /\ particles' = particles
           /\ weights' = weights)]_vars

\* C5: when dataAssociation is called with no candidate and at least one
\* observation, no observation is given the index of a candidate: the call
\* does not return an observation whose id is an index.
C5_EmptyCandidatesSignaled ==
    \A i \in DOMAIN assoc :
       (Size(assoc[i].predicted) = 0) =>
           \A k \in DOMAIN assoc[i].matched : assoc[i].matched[k].id < 0

\* The smallest index whose candidate is nearest to the observation o.
NearestIndex(predicted, o) ==
    CHOOSE j \in DOMAIN predicted :
       /\ \A m \in DOMAIN predicted :
             dist2(o.x, o.y, predicted[j].x, predicted[j].y)
                <= dist2(o.x, o.y, predicted[m].x, predicted[m].y)
       /\ \A m \in DOMAIN predicted :
             m < j => dist2(o.x, o.y, predicted[m].x, predicted[m].y)
                         > dist2(o.x, o.y, predicted[j].x, predicted[j].y)

\* C6: for every non-empty candidate sequence and every observation,
\* dataAssociation sets the observation's id to the smallest index of a
\* nearest candidate and its coordinates to that candidate's, at every
\* distance.
C6_NearestCandidate ==
    \A i \in DOMAIN assoc :
       (Size(assoc[i].predicted) > 0) =>
           \A k \in DOMAIN assoc[i].matched :
              LET j == NearestIndex(assoc[i].predicted,
                                    assoc[i].observations[k])
              IN  /\ assoc[i].matched[k].id = j
                  /\ assoc[i].matched[k].x = assoc[i].predicted[j].x
                  /\ assoc[i].matched[k].y = assoc[i].predicted[j].y

\* C7: when at least one weight is positive, every particle resample
\* produces has the pose and weight of a particle of the previous
\* generation whose weight is strictly positive.
C7_DrawnFromPositiveWeights ==
    [][(call'.op = "resample" /\ \E j \in DOMAIN weights : weights[j] > 0) =>
          \A i \in DOMAIN particles' :
             \E j \in DOMAIN particles :
                /\ weights[j] > 0
                /\ particles[j].weight > 0
                /\ particles'[i].x = particles[j].x
                /\ particles'[i].y = particles[j].y
                /\ particles'[i].theta = particles[j].theta
                /\ particles'[i].weight = particles[j].weight
                /\ weights'[i] = particles[j].weight]_vars

\* A resample has run on weights of which some, not all, were zero.
C7_Witness ==
    /\ is_initialized
    /\ Returned("resample")
    /\ entry = "mixed"
    /\ \A i \in Indices : weights[i] > 0

\* C8: a second updateWeights with the arguments of the first, right after
\* it, leaves every particle's weight and every weights[i] as the first
\* call left them.
C8_UpdateWeightsIdempotent ==
    [][(/\ Returned("updateWeights")
        /\ call'.op = "updateWeights"
        /\ outcome' = "returned"
        /\ call'.args = call.args)
       => (weights' = weights /\ particles' = particles)]_vars

\* C8 on the arguments that keep every read of dataAssociation inside its
\* candidates: there the second call leaves the weights of the first.
C8_IdempotentInsideCandidates ==
    [][(/\ Returned("updateWeights")
        /\ call'.op = "updateWeights"
        /\ outcome' = "returned"
        /\ call'.args = call.args
        /\ ~Faults(particles, call.args))
       => (weights' = weights /\ particles' = particles)]_vars

\* C9: after init, and after any sequence of completed calls, the number of
\* particles and the length of weights are both N; right after init every
\* weight is exactly 1.0.
C9_SizeIsConstant ==
    (is_initialized /\ outcome = "returned") =>
        /\ num_particles = NumParticles
        /\ Size(particles) = NumParticles
        /\ Size(weights) = NumParticles
        /\ call.op = "init" =>
              \A i \in Indices : particles[i].weight = One /\ weights[i] = One

\* A resample has run after a prediction that turned the particles and an
\* updateWeights that set a weight other than 1.0.
C9_Witness ==
    /\ is_initialized
    /\ Returned("resample")
    /\ Size(particles) = NumParticles
    /\ \E i \in Indices : particles[i].theta # 0 /\ particles[i].weight # One

\* C10: after any prediction, whatever the weights were before it, every
\* particle's weight and every entry of weights is exactly 1.0.
C10_PredictionResetsWeights ==
    (is_initialized /\ Returned("prediction")) =>
        \A i \in Indices : particles[i].weight = One /\ weights[i] = One

\* A prediction has run on weights other than 1.0 that a resample had
\* carried over (a particle is away from the position of its identifier).
C10_Witness ==
    /\ is_initialized
    /\ Returned("prediction")
    /\ entry \in {"positive", "mixed", "zero"}
    /\ \E i \in Indices : particles[i].id # i

====
